---- MODULE Spec2Model ----
(***************************************************************************)
(* MetaQuery (src/metaQuery.py): a Streamlit script that loads uploaded    *)
(* tables, removes duplicates on the normalized second column, filters by  *)
(* a global search, groups by the first column, collects per-row checkbox  *)
(* selections and exports one column.                                      *)
(*                                                                         *)
(* Strings are sequences of one-character strings.  A missing cell (NaN)   *)
(* is the one-element sequence NaN, which no text can equal.               *)
(***************************************************************************)
EXTENDS Integers, Sequences, FiniteSets, TLC

\* ---------------------------------------------------------------- bounds
MaxLen == 3
MaxRows == 3

\* ------------------------------------------------------------ characters
Letters == {"a", "b", "n", "x", "y", "f", "g", "c", "s", "v", "l", "A", "B", "X"}
Digits == {"0", "1", "2", "3", "4", "5", "6", "7", "8", "9"}

\* str.lower() on one character
Lower(c) ==
  CASE c = "A" -> "a"
    [] c = "B" -> "b"
    [] c = "X" -> "x"
    [] OTHER -> c

\* the regex class \s
IsSpace(c) == c = " "

\* the regex class [_\-]
IsSeparator(c) == c \in {"_", "-"}

\* the regex class \w
IsWord(c) == c \in Letters \cup Digits \cup {"_"}

\* the complement of the regex class [^\w\s()/]
IsKept(c) == IsWord(c) \/ IsSpace(c) \/ c \in {"(", ")", "/"}

\* ---------------------------------------------------------------- strings
LowerStr(s) == [i \in 1..Len(s) |-> Lower(s[i])]

RECURSIVE LStrip(_)
LStrip(s) == IF s # <<>> /\ IsSpace(Head(s)) THEN LStrip(Tail(s)) ELSE s

RECURSIVE RStrip(_)
RStrip(s) ==
  IF s # <<>> /\ IsSpace(s[Len(s)]) THEN RStrip(SubSeq(s, 1, Len(s) - 1)) ELSE s

\* str.strip()
Strip(s) == RStrip(LStrip(s))

\* re.sub(r"[_\-]+", " ", s): every maximal run of separators becomes one space
RECURSIVE SubSeparators(_)
SubSeparators(s) ==
  IF s = <<>> THEN <<>>
  ELSE IF IsSeparator(Head(s))
       THEN IF Len(s) > 1 /\ IsSeparator(s[2])
            THEN SubSeparators(Tail(s))
            ELSE <<" ">> \o SubSeparators(Tail(s))
       ELSE <<Head(s)>> \o SubSeparators(Tail(s))

\* re.sub(r"\s+", " ", s): every maximal run of whitespace becomes one space
RECURSIVE SubSpaces(_)
SubSpaces(s) ==
  IF s = <<>> THEN <<>>
  ELSE IF IsSpace(Head(s))
       THEN IF Len(s) > 1 /\ IsSpace(s[2])
            THEN SubSpaces(Tail(s))
            ELSE <<" ">> \o SubSpaces(Tail(s))
       ELSE <<Head(s)>> \o SubSpaces(Tail(s))

\* re.sub(r"[^\w\s()/]", "", s)
RemoveSpecial(s) == SelectSeq(s, IsKept)

normalize_text(text) == RemoveSpecial(SubSpaces(SubSeparators(Strip(LowerStr(text)))))

\* ------------------------------------------------------------------ cells
NaN == <<"NaN">>

\* str(value) as astype(str) and f"{value}" give it: a missing cell reads "nan"
Str(v) == IF v = NaN THEN <<"n", "a", "n">> ELSE v

\* str(i) for a row position
DigitStr(i) ==
  CASE i = 0 -> "0" [] i = 1 -> "1" [] i = 2 -> "2" [] i = 3 -> "3" [] i = 4 -> "4"
    [] i = 5 -> "5" [] i = 6 -> "6" [] i = 7 -> "7" [] i = 8 -> "8" [] OTHER -> "9"

\* ----------------------------------------------------------------- frames
\* A DataFrame is [cols |-> sequence of column names,
\*                 rows |-> sequence of [name |-> index label, cells |-> [column -> cell]]].
SourceFile == "Source_File"
GroupKey == "_group_key"
NoColumn == "<None>"
EmptyFrame == [cols |-> <<>>, rows |-> <<>>]

\* the dtype pandas infers for a parsed column of the model's files
DType(c) == IF c = "Count" THEN "int64" ELSE "object"

\* select_dtypes(include=["object", "string"])
IsTextColumn(c) == DType(c) = "object"

\* "definition" in c.lower(), on the column names of the model
IsDefinitionColumn(c) == c \in {"Definition"}

Range(s) == {s[i] : i \in 1..Len(s)}

\* DataFrame.empty
Empty(df) == Len(df.cols) = 0 \/ Len(df.rows) = 0

\* df[mask]: the rows whose position is in keep, labels kept
RECURSIVE TakeRows(_, _, _)
TakeRows(rows, keep, i) ==
  IF i > Len(rows) THEN <<>>
  ELSE (IF i \in keep THEN <<rows[i]>> ELSE <<>>) \o TakeRows(rows, keep, i + 1)

\* df[cols] / df.drop(columns=...): the same rows restricted to the columns cs
Project(df, cs) ==
  [cols |-> cs,
   rows |-> [i \in 1..Len(df.rows) |->
               [name |-> df.rows[i].name,
                cells |-> [c \in Range(cs) |-> df.rows[i].cells[c]]]]]

\* the columns of cs that are not in the set hide, in order
RECURSIVE DropCols(_, _)
DropCols(cs, hide) ==
  IF cs = <<>> THEN <<>>
  ELSE (IF Head(cs) \in hide THEN <<>> ELSE <<Head(cs)>>) \o DropCols(Tail(cs), hide)

\* A parsed file is [name |-> file name, cols |-> columns, rows |-> sequence of [column -> cell]].
load_file(file) ==
  [cols |-> Append(file.cols, SourceFile),
   rows |-> [i \in 1..Len(file.rows) |->
               [name |-> i - 1,
                cells |-> [c \in Range(file.cols) \cup {SourceFile} |->
                             IF c = SourceFile THEN file.name ELSE file.rows[i][c]]]]]

\* the union of the frames' columns in order of first appearance
RECURSIVE ConcatCols(_)
ConcatCols(dfs) ==
  IF dfs = <<>> THEN <<>>
  ELSE LET rest == ConcatCols(Tail(dfs))
       IN Head(dfs).cols \o DropCols(rest, Range(Head(dfs).cols))

RECURSIVE ConcatRows(_)
ConcatRows(dfs) == IF dfs = <<>> THEN <<>> ELSE Head(dfs).rows \o ConcatRows(Tail(dfs))

\* pd.concat(dfs, ignore_index=True)
Concat(dfs) ==
  LET cs == ConcatCols(dfs)
      rs == ConcatRows(dfs)
  IN [cols |-> cs,
      rows |-> [i \in 1..Len(rs) |->
                  [name |-> i - 1,
                   cells |-> [c \in Range(cs) |->
                                IF c \in DOMAIN rs[i].cells THEN rs[i].cells[c] ELSE NaN]]]]

\* ---------------------------------------------------------- deduplication
\* normalized_df: every text column through astype(str).apply(normalize_text)
NormalizedCell(c, v) == IF IsTextColumn(c) THEN normalize_text(Str(v)) ELSE v

\* the mask of duplicated(..., keep="last"): the last row of a key is the one kept
DuplicatesMaskKeepLast(df) ==
  LET second_col == df.cols[2]
      key(i) == NormalizedCell(second_col, df.rows[i].cells[second_col])
  IN {i \in 1..Len(df.rows) : \E j \in (i + 1)..Len(df.rows) : key(j) = key(i)}

\* normalized_df.duplicated(subset=[second_col], keep="first"), as row positions
DuplicatesMask(df) ==
  LET second_col == df.cols[2]
      key(i) == NormalizedCell(second_col, df.rows[i].cells[second_col])
  IN {i \in 1..Len(df.rows) : \E j \in 1..(i - 1) : key(j) = key(i)}

\* the deduplication block taking the removed rows from the normalized shadow table
DeduplicateFromShadow(df_working) ==
  IF Len(df_working.cols) > 1
  THEN LET duplicates_mask == DuplicatesMask(df_working)
           keep_mask == (1..Len(df_working.rows)) \ duplicates_mask
           shadow == [i \in 1..Len(df_working.rows) |->
                        [name |-> df_working.rows[i].name,
                         cells |-> [c \in Range(df_working.cols) |->
                                      NormalizedCell(c, df_working.rows[i].cells[c])]]]
       IN [df |-> [cols |-> df_working.cols,
                   rows |-> TakeRows(df_working.rows, keep_mask, 1)],
           removed_df |-> [cols |-> df_working.cols,
                           rows |-> TakeRows(shadow, duplicates_mask, 1)],
           warned |-> FALSE]
  ELSE [df |-> df_working, removed_df |-> EmptyFrame, warned |-> TRUE]

\* the deduplication block: [df |-> kept, removed_df |-> removed, warned |-> st.warning shown]
Deduplicate(df_working) ==
  IF Len(df_working.cols) > 1
  THEN LET duplicates_mask == DuplicatesMask(df_working)
           keep_mask == (1..Len(df_working.rows)) \ duplicates_mask
       IN [df |-> [cols |-> df_working.cols,
                   rows |-> TakeRows(df_working.rows, keep_mask, 1)],
           removed_df |-> [cols |-> df_working.cols,
                           rows |-> TakeRows(df_working.rows, duplicates_mask, 1)],
           warned |-> FALSE]
  ELSE [df |-> df_working, removed_df |-> EmptyFrame, warned |-> TRUE]

\* ------------------------------------------------------------------ search
\* one pattern character against one text character under re.IGNORECASE; the
\* model's queries hold letters and ".", the only metacharacter among them
CharMatches(p, c) == p = "." \/ Lower(p) = Lower(c)

\* re.search(query, s, re.IGNORECASE), what Series.str.contains(query, case=False) runs
Contains(s, query) ==
  \E start \in 1..(Len(s) - Len(query) + 1) :
    \A k \in 1..Len(query) : CharMatches(query[k], s[start + k - 1])

RowMatches(df, row, query) ==
  \E c \in Range(df.cols) : IsTextColumn(c) /\ Contains(Str(row.cells[c]), query)

text_search(df, query) ==
  IF query = <<>> THEN df
  ELSE [cols |-> df.cols,
        rows |-> TakeRows(df.rows,
                          {i \in 1..Len(df.rows) : RowMatches(df, df.rows[i], query)}, 1)]

\* ---------------------------------------------------------------- grouping
\* df[parent_col].astype(str).str.lower()
GroupKeyOf(row, parent_col) == LowerStr(Str(row.cells[parent_col]))

\* the distinct keys in order of first appearance (groupby(..., sort=False))
RECURSIVE FirstSeen(_, _)
FirstSeen(keys, seen) ==
  IF keys = <<>> THEN <<>>
  ELSE IF Head(keys) \in seen THEN FirstSeen(Tail(keys), seen)
       ELSE <<Head(keys)>> \o FirstSeen(Tail(keys), seen \cup {Head(keys)})

\* grouping that only joins neighbouring rows of one key
RECURSIVE AdjacentRuns(_, _)
AdjacentRuns(rows, parent_col) ==
  IF rows = <<>> THEN <<>>
  ELSE LET rest == AdjacentRuns(Tail(rows), parent_col)
       IN IF rest # <<>> /\ GroupKeyOf(Head(rest)[1], parent_col) = GroupKeyOf(Head(rows), parent_col)
          THEN <<<<Head(rows)>> \o Head(rest)>> \o Tail(rest)
          ELSE <<<<Head(rows)>>>> \o rest

GroupByAdjacent(df, parent_col) == AdjacentRuns(df.rows, parent_col)

\* the groups of df by its _group_key: a sequence of row sequences
GroupBy(df, parent_col) ==
  LET keys == [i \in 1..Len(df.rows) |-> GroupKeyOf(df.rows[i], parent_col)]
      order == FirstSeen(keys, {})
  IN [g \in 1..Len(order) |->
        TakeRows(df.rows, {i \in 1..Len(df.rows) : keys[i] = order[g]}, 1)]

\* filtered_df["_group_key"] = ...: the column appended to the frame
WithGroupKey(df, parent_col) ==
  [cols |-> Append(df.cols, GroupKey),
   rows |-> [i \in 1..Len(df.rows) |->
               [name |-> df.rows[i].name,
                cells |-> [c \in Range(df.cols) \cup {GroupKey} |->
                             IF c = GroupKey THEN GroupKeyOf(df.rows[i], parent_col)
                             ELSE df.rows[i].cells[c]]]]]

\* ------------------------------------------------------- selection, export
\* key = f"{original_parent}_{i}"
CheckboxKey(original_parent, i) == Str(original_parent) \o <<"_", DigitStr(i)>>

\* the displayed columns with the definition columns left in
DisplayColsWithDefinitions(cols, parent_col) == DropCols(cols, {parent_col, GroupKey})

\* cols_to_hide + ["_group_key"], dropped from the group's columns
DisplayCols(cols, parent_col) ==
  DropCols(cols, {parent_col, GroupKey} \cup {c \in Range(cols) : IsDefinitionColumn(c)})

\* original_parent = group.iloc[0][parent_col]
OriginalParent(group, parent_col) == group[1].cells[parent_col]

\* str(row.iloc[0]), the checkbox's label: the row's first displayed cell, or
\* the Select column itself (still False) when no other column is displayed
CheckboxLabel(row, shown) ==
  IF shown = <<>> THEN <<"F", "a", "l", "s", "e">> ELSE Str(row.cells[shown[1]])

\* one group's display_group after the checkbox loop: every row carries its
\* checkbox (key and label) and its Select flag, read from the widget state
DisplayGroup(group, parent_col, cols, checked) ==
  [i \in 1..Len(group) |->
     [name |-> group[i].name,
      cells |-> [c \in Range(DisplayCols(cols, parent_col)) |-> group[i].cells[c]],
      key |-> CheckboxKey(OriginalParent(group, parent_col), i - 1),
      label |-> CheckboxLabel(group[i], DisplayCols(cols, parent_col)),
      Select |-> <<CheckboxKey(OriginalParent(group, parent_col), i - 1),
                   CheckboxLabel(group[i], DisplayCols(cols, parent_col))>> \in checked]]

\* pd.concat(editable_rows, ignore_index=True): the groups' rows in group order
RECURSIVE ConcatGroups(_, _, _, _)
ConcatGroups(groups, parent_col, cols, checked) ==
  IF groups = <<>> THEN <<>>
  ELSE DisplayGroup(Head(groups), parent_col, cols, checked)
         \o ConcatGroups(Tail(groups), parent_col, cols, checked)

\* the first column that is not Source_File, None when there is none
RECURSIVE FirstExportable(_)
FirstExportable(cols) ==
  IF cols = <<>> THEN NoColumn
  ELSE IF Head(cols) # SourceFile THEN Head(cols) ELSE FirstExportable(Tail(cols))

\* final_filtered[column_to_export].dropna().tolist()
RECURSIVE DropNa(_, _)
DropNa(rows, c) ==
  IF rows = <<>> THEN <<>>
  ELSE (IF Head(rows).cells[c] = NaN THEN <<>> ELSE <<Head(rows).cells[c]>>)
         \o DropNa(Tail(rows), c)

\* the filter with the flag inverted: the rows that are not selected
FinalFilteredUnselected(editable_table) ==
  IF Len(editable_table.rows) > 0
  THEN [cols |-> editable_table.cols,
        rows |-> LET sel == SelectSeq(editable_table.rows, LAMBDA r : ~r.Select)
                 IN [i \in 1..Len(sel) |-> [name |-> sel[i].name, cells |-> sel[i].cells]]]
  ELSE EmptyFrame

\* editable_table[editable_table["Select"] == True].drop(columns=["Select"])
FinalFiltered(editable_table) ==
  IF Len(editable_table.rows) > 0
  THEN [cols |-> editable_table.cols,
        rows |-> LET sel == SelectSeq(editable_table.rows, LAMBDA r : r.Select)
                 IN [i \in 1..Len(sel) |-> [name |-> sel[i].name, cells |-> sel[i].cells]]]
  ELSE EmptyFrame

ColumnToExport(final_filtered, filtered_df) ==
  IF ~Empty(final_filtered) THEN FirstExportable(final_filtered.cols)
  ELSE IF ~Empty(filtered_df) THEN FirstExportable(filtered_df.cols)
  ELSE NoColumn

\* col_data: the one row written to the sheet
ColData(final_filtered, column_to_export) ==
  IF column_to_export # NoColumn /\ ~Empty(final_filtered)
  THEN DropNa(final_filtered.rows, column_to_export)
  ELSE <<>>

\* ------------------------------------------------------------- the script
\* What one run of the script leaves when nothing is uploaded (st.info), and
\* what a run that stops early has not produced.
NoRun ==
  [df_original |-> EmptyFrame, df |-> EmptyFrame, removed_df |-> EmptyFrame,
   warned |-> FALSE, searched |-> EmptyFrame, filtered_df |-> EmptyFrame,
   crashed |-> FALSE, groups |-> <<>>, expanders |-> <<>>,
   editable_table |-> EmptyFrame,
   final_filtered |-> EmptyFrame, column_to_export |-> NoColumn, col_data |-> <<>>]

\* The script, section by section; each section hands what it computed to the
\* next one.

\* "Export": final_filtered, column_to_export, col_data
ExportSection(run, final_filtered) ==
  [run EXCEPT !.final_filtered = final_filtered,
              !.column_to_export = ColumnToExport(final_filtered, run.filtered_df),
              !.col_data = ColData(final_filtered,
                                   ColumnToExport(final_filtered, run.filtered_df))]

\* "Master Expander for Remaining Rows with Checkboxes", once the groups are made
ExpanderGroups(run, parent_col, groups, checked) ==
  ExportSection(
    [run EXCEPT !.groups = groups,
                !.expanders =
                   [g \in 1..Len(groups) |->
                      [original_parent |-> OriginalParent(groups[g], parent_col),
                       count |-> Len(groups[g])]],
                !.editable_table =
                   [cols |-> DisplayCols(run.filtered_df.cols, parent_col),
                    rows |-> ConcatGroups(groups, parent_col, run.filtered_df.cols, checked)]],
    FinalFiltered([cols |-> DisplayCols(run.filtered_df.cols, parent_col),
                   rows |-> ConcatGroups(groups, parent_col, run.filtered_df.cols, checked)]))

\* the same section from its start: nothing to group when filtered_df is empty
ExpanderSection(run, checked) ==
  IF Empty(run.filtered_df) THEN ExportSection(run, EmptyFrame)
  ELSE ExpanderGroups([run EXCEPT !.filtered_df = WithGroupKey(@, @.cols[1])],
                      run.filtered_df.cols[1],
                      GroupBy(run.filtered_df, run.filtered_df.cols[1]), checked)

\* "Grouped Table Preview": generate_parent_grouped_html reads df.columns[0], so a
\* frame without columns raises IndexError and the run ends there
PreviewSection(run, checked) ==
  IF Len(run.filtered_df.cols) = 0 THEN [run EXCEPT !.crashed = TRUE]
  ELSE ExpanderSection(run, checked)

\* "Global Search", once text_search has run: Source_File leaves the frame
SearchResult(run, searched, checked) ==
  PreviewSection([run EXCEPT !.searched = searched,
                             !.filtered_df =
                                Project(searched, DropCols(searched.cols, {SourceFile}))],
                 checked)

SearchSection(run, query, checked) ==
  SearchResult(run, text_search(run.df, query), checked)

\* "Deduplication", once the masks are applied
DeduplicationResult(df_original, dedup, query, checked) ==
  SearchSection([NoRun EXCEPT !.df_original = df_original, !.df = dedup.df,
                              !.removed_df = dedup.removed_df, !.warned = dedup.warned],
                query, checked)

DeduplicationSection(df_original, query, checked) ==
  DeduplicationResult(df_original, Deduplicate(df_original), query, checked)

\* One run of the script over the uploaded files, the search text and the
\* checkbox states Streamlit holds.
Script(files, query, checked) ==
  IF files = <<>> THEN NoRun
  ELSE DeduplicationSection(Concat([i \in 1..Len(files) |-> load_file(files[i])]),
                            query, checked)

\* A checkbox is the same widget in the next run when its key and its label are
\* the same; Streamlit keeps the value of such a widget and no other.
WidgetId(row) == <<row.key, row.label>>

\* the checkboxes a run rendered
RenderedWidgets(run) ==
  {WidgetId(run.editable_table.rows[i]) : i \in 1..Len(run.editable_table.rows)}

\* ------------------------------------------------------------------ inputs
\* The uploads of the model: files of one layout, their rows drawn from the
\* layout's pool.  Every file name ends in an extension load_file reads.
FileF == <<"f", ".", "c", "s", "v">>
FileG == <<"g", ".", "c", "s", "v">>
FileX == <<"f", ".", "x", "l", "s">>

ColsCT == <<"Concept", "Term">>
ColsCDT == <<"Concept", "Definition", "Term">>
ColsCNT == <<"Concept", "Count", "Term">>
ColsT == <<"Term">>

PoolCT ==
  {[Concept |-> <<"B">>, Term |-> <<"x">>],
   [Concept |-> <<"b">>, Term |-> <<"X">>],
   [Concept |-> <<"A">>, Term |-> <<"y">>],
   [Concept |-> <<"b">>, Term |-> NaN]}

PoolCDT ==
  {[Concept |-> <<"B">>, Definition |-> <<"x", "_", "y">>, Term |-> <<"x">>],
   [Concept |-> <<"b">>, Definition |-> <<"X", "-", "y">>, Term |-> NaN],
   [Concept |-> <<"A">>, Definition |-> <<"y">>, Term |-> <<"x">>],
   [Concept |-> <<"A">>, Definition |-> NaN, Term |-> <<"x">>]}

PoolCNT ==
  {[Concept |-> <<"B">>, Count |-> <<"1">>, Term |-> <<"x">>],
   [Concept |-> <<"A">>, Count |-> <<"1">>, Term |-> <<"y">>],
   [Concept |-> <<"b">>, Count |-> <<"2">>, Term |-> <<"X">>]}

PoolT == {[Term |-> <<"x">>], [Term |-> <<"X">>], [Term |-> <<"y">>]}

Layouts ==
  {[cols |-> ColsCT, pool |-> PoolCT], [cols |-> ColsCDT, pool |-> PoolCDT],
   [cols |-> ColsCNT, pool |-> PoolCNT], [cols |-> ColsT, pool |-> PoolT]}

SeqsUpTo(S, n) == UNION {[1..k -> S] : k \in 0..n}

\* one file with all the rows, or two files of one row each
UploadsOf(cols, rows) ==
  {<<[name |-> FileF, cols |-> cols, rows |-> rows]>>}
  \cup (IF Len(rows) = 2
        THEN {<<[name |-> FileF, cols |-> cols, rows |-> <<rows[1]>>],
                [name |-> FileG, cols |-> cols, rows |-> <<rows[2]>>]>>}
        ELSE {})

\* the last one is a spreadsheet without any cell
Uploads ==
  UNION {UNION {UploadsOf(l.cols, rows) : rows \in SeqsUpTo(l.pool, MaxRows)} : l \in Layouts}
  \cup {<<[name |-> FileX, cols |-> <<>>, rows |-> <<>>]>>}

\* what the user may type in the search box
Queries == {<<>>, <<"x">>, <<"y">>, <<"c", ".">>}

\* the strings normalize_text is applied to
NormAlphabet == {"a", "A", "_", " ", "."}
NormInputs == SeqsUpTo(NormAlphabet, MaxLen)

\* ------------------------------------------------------------------- state
VARIABLES
  uploaded_files,   \* st.file_uploader: the files, parsed
  global_search,    \* st.text_input: the search text
  session_state,    \* Streamlit's widget state: the ticked checkboxes
  userTicked,       \* the index labels of the rows whose checkbox the user ticked
  df_original, df, removed_df, warned, searched, filtered_df, crashed,
  grouped_remaining, expanders, editable_table, final_filtered, column_to_export, col_data,
  text,             \* a string handed to normalize_text
  normalized,       \* the results of normalize_text on it, pass after pass
  pc

appvars ==
  <<uploaded_files, global_search, session_state, userTicked, df_original, df,
    removed_df, warned, searched, filtered_df, crashed, grouped_remaining,
    expanders, editable_table, final_filtered, column_to_export, col_data>>
normvars == <<text, normalized>>
vars == <<appvars, normvars, pc>>

\* the script runs top to bottom and leaves its tables; Streamlit forgets the
\* state of every widget the run did not render
Rerun(files, query, checked) ==
  \E run \in {Script(files, query, checked)} :
     /\ uploaded_files' = files
     /\ global_search' = query
     /\ session_state' = checked \cap RenderedWidgets(run)
     /\ df_original' = run.df_original
     /\ df' = run.df
     /\ removed_df' = run.removed_df
     /\ warned' = run.warned
     /\ searched' = run.searched
     /\ filtered_df' = run.filtered_df
     /\ crashed' = run.crashed
     /\ grouped_remaining' = run.groups
     /\ expanders' = run.expanders
     /\ editable_table' = run.editable_table
     /\ final_filtered' = run.final_filtered
     /\ column_to_export' = run.column_to_export
     /\ col_data' = run.col_data

Init ==
  /\ uploaded_files = <<>>
  /\ global_search = <<>>
  /\ session_state = {}
  /\ userTicked = {}
  /\ df_original = NoRun.df_original
  /\ df = NoRun.df
  /\ removed_df = NoRun.removed_df
  /\ warned = NoRun.warned
  /\ searched = NoRun.searched
  /\ filtered_df = NoRun.filtered_df
  /\ crashed = NoRun.crashed
  /\ grouped_remaining = NoRun.groups
  /\ expanders = NoRun.expanders
  /\ editable_table = NoRun.editable_table
  /\ final_filtered = NoRun.final_filtered
  /\ column_to_export = NoRun.column_to_export
  /\ col_data = NoRun.col_data
  /\ text = <<>>
  /\ normalized = <<>>
  /\ pc = "app"

\* the user uploads files into the empty uploader
Upload ==
  /\ pc = "app"
  /\ uploaded_files = <<>>
  /\ \E files \in Uploads : Rerun(files, <<>>, {})
  /\ UNCHANGED <<userTicked, normvars, pc>>

\* the user removes the files: only st.info is shown, no widget is rendered
Clear ==
  /\ pc = "app"
  /\ uploaded_files # <<>>
  /\ Rerun(<<>>, <<>>, {})
  /\ userTicked' = {}
  /\ UNCHANGED <<normvars, pc>>

\* the user changes the search text
Search ==
  /\ pc = "app"
  /\ uploaded_files # <<>>
  /\ \E query \in Queries \ {global_search} : Rerun(uploaded_files, query, session_state)
  /\ UNCHANGED <<userTicked, normvars, pc>>

\* the user clicks the checkbox of one displayed row
Toggle ==
  /\ pc = "app"
  /\ \E i \in 1..Len(editable_table.rows) :
       LET row == editable_table.rows[i]
       IN IF WidgetId(row) \in session_state
          THEN /\ Rerun(uploaded_files, global_search, session_state \ {WidgetId(row)})
               /\ userTicked' = userTicked \ {row.name}
          ELSE /\ Rerun(uploaded_files, global_search, session_state \cup {WidgetId(row)})
               /\ userTicked' = userTicked \cup {row.name}
  /\ UNCHANGED <<normvars, pc>>

Next == Upload \/ Clear \/ Search \/ Toggle

Spec == Init /\ [][Next]_vars

\* --------------------------------------------- normalize_text, on its own
InitNormalize ==
  /\ uploaded_files = <<>>
  /\ global_search = <<>>
  /\ session_state = {}
  /\ userTicked = {}
  /\ df_original = NoRun.df_original
  /\ df = NoRun.df
  /\ removed_df = NoRun.removed_df
  /\ warned = NoRun.warned
  /\ searched = NoRun.searched
  /\ filtered_df = NoRun.filtered_df
  /\ crashed = NoRun.crashed
  /\ grouped_remaining = NoRun.groups
  /\ expanders = NoRun.expanders
  /\ editable_table = NoRun.editable_table
  /\ final_filtered = NoRun.final_filtered
  /\ column_to_export = NoRun.column_to_export
  /\ col_data = NoRun.col_data
  /\ text \in NormInputs
  /\ normalized = <<>>
  /\ pc = "normalize"

\* normalize_text on the input, then on its own result
Normalize ==
  /\ pc = "normalize"
  /\ Len(normalized) < 2
  /\ normalized' = Append(normalized,
                          normalize_text(IF normalized = <<>> THEN text ELSE normalized[1]))
  /\ UNCHANGED <<appvars, text, pc>>

NextNormalize == Normalize

SpecNormalize == InitNormalize /\ [][NextNormalize]_vars

\* ================================================================= claims
InFrame(frame, name) == \E k \in 1..Len(frame.rows) : frame.rows[k].name = name

\* the value deduplication compares: the second column's cell, as text through
\* normalize_text when the column is textual, as it stands otherwise
KeyOfRow(i) ==
  LET c == df_original.cols[2]
      v == df_original.rows[i].cells[c]
  IN IF DType(c) = "object" THEN normalize_text(Str(v)) ELSE v

\* C1: with a second column, a row of the uploaded table is among the removed
\* rows iff an earlier row has the same normalized second-column value, and among
\* the kept rows iff none has; so the earliest row of every key is kept.
C1_RemovedIffEarlierSameKey ==
  Len(df_original.cols) > 1 =>
    \A i \in 1..Len(df_original.rows) :
      LET earlier == \E j \in 1..(i - 1) : KeyOfRow(j) = KeyOfRow(i)
      IN /\ InFrame(removed_df, df_original.rows[i].name) <=> earlier
         /\ InFrame(df, df_original.rows[i].name) <=> ~earlier

\* a removed row whose raw key and whose first column both differ from those of
\* the earlier kept row it duplicates
C1_Witness ==
  /\ Len(df_original.cols) > 1
  /\ \E i \in 1..Len(df_original.rows) : \E j \in 1..(i - 1) :
       /\ InFrame(removed_df, df_original.rows[i].name)
       /\ InFrame(df, df_original.rows[j].name)
       /\ KeyOfRow(j) = KeyOfRow(i)
       /\ df_original.rows[j].cells[df_original.cols[2]]
            # df_original.rows[i].cells[df_original.cols[2]]
       /\ df_original.rows[j].cells[df_original.cols[1]]
            # df_original.rows[i].cells[df_original.cols[1]]

\* the rows of a frame are rows of the uploaded table, under their own labels
RowsOfOriginal(frame) ==
  \A k \in 1..Len(frame.rows) :
    /\ frame.rows[k].name + 1 \in 1..Len(df_original.rows)
    /\ frame.rows[k] = df_original.rows[frame.rows[k].name + 1]

\* the labels of a frame's rows increase: the rows keep their relative order
InOriginalOrder(frame) ==
  \A k \in 1..(Len(frame.rows) - 1) : frame.rows[k].name < frame.rows[k + 1].name

\* C2: kept and removed partition the uploaded table: every row of it is in
\* exactly one of them, exactly once and unchanged, nothing else is in them, and
\* both keep the original relative order.
C2_Partition ==
  /\ RowsOfOriginal(df) /\ RowsOfOriginal(removed_df)
  /\ InOriginalOrder(df) /\ InOriginalOrder(removed_df)
  /\ Len(df.rows) + Len(removed_df.rows) = Len(df_original.rows)
  /\ \A i \in 1..Len(df_original.rows) :
       InFrame(df, df_original.rows[i].name) # InFrame(removed_df, df_original.rows[i].name)

\* a removed row between two kept rows
C2_Witness ==
  \E a \in 1..Len(df.rows), b \in 1..Len(df.rows), r \in 1..Len(removed_df.rows) :
    /\ df.rows[a].name < removed_df.rows[r].name
    /\ removed_df.rows[r].name < df.rows[b].name

\* the grouping key of a displayed row: its first column's text, lowercased
ParentKey(row) == LowerStr(Str(row.cells[filtered_df.cols[1]]))

\* C5: the groups hold every row of the filtered table exactly once; two rows
\* are in one group iff their lowercased first-column values are equal; a group's
\* rows keep their relative order; the groups are ordered by their first rows
\* (first occurrence, not sorted); and each group's display value is the raw
\* first-column value of its first row.
C5_Grouping ==
  LET G == grouped_remaining
  IN /\ \A k \in 1..Len(filtered_df.rows) :
          Cardinality({g \in 1..Len(G) :
                         \E i \in 1..Len(G[g]) : G[g][i].name = filtered_df.rows[k].name}) = 1
     /\ \A g \in 1..Len(G) :
          /\ G[g] # <<>>
          /\ \A i \in 1..Len(G[g]) :
               /\ InFrame(filtered_df, G[g][i].name)
               /\ \A h \in 1..Len(G) : \A j \in 1..Len(G[h]) :
                    (ParentKey(G[g][i]) = ParentKey(G[h][j])) <=> (g = h)
          /\ \A i \in 1..(Len(G[g]) - 1) : G[g][i].name < G[g][i + 1].name
          /\ g < Len(G) => G[g][1].name < G[g + 1][1].name
     /\ Len(expanders) = Len(G)
     /\ \A g \in 1..Len(G) :
          /\ expanders[g].original_parent = G[g][1].cells[filtered_df.cols[1]]
          /\ expanders[g].count = Len(G[g])

\* the group of "B" and "b" comes before the group of "A" and holds two rows
\* that are not neighbours and differ in their raw value
C5_Witness ==
  /\ Len(grouped_remaining) >= 2
  /\ Len(grouped_remaining[1]) = 2
  /\ ParentKey(grouped_remaining[1][1]) = <<"b">>
  /\ ParentKey(grouped_remaining[2][1]) = <<"a">>
  /\ grouped_remaining[1][1].cells[filtered_df.cols[1]]
       # grouped_remaining[1][2].cells[filtered_df.cols[1]]
  /\ grouped_remaining[1][1].name < grouped_remaining[2][1].name
  /\ grouped_remaining[2][1].name < grouped_remaining[1][2].name
  /\ expanders[1].original_parent = <<"B">>

RECURSIVE Flatten(_)
Flatten(groups) == IF groups = <<>> THEN <<>> ELSE Head(groups) \o Flatten(Tail(groups))

AnySelected == \E i \in 1..Len(editable_table.rows) : editable_table.rows[i].Select

\* the cell of the uploaded table in the row labelled name
OriginalCell(name, c) == df_original.rows[name + 1].cells[c]

\* the non-missing values of column c in the rows of shown labelled in wanted
RECURSIVE ValuesOf(_, _, _)
ValuesOf(shown, c, wanted) ==
  IF shown = <<>> THEN <<>>
  ELSE (IF Head(shown).name \in wanted /\ OriginalCell(Head(shown).name, c) # NaN
        THEN <<OriginalCell(Head(shown).name, c)>> ELSE <<>>)
         \o ValuesOf(Tail(shown), c, wanted)

\* the labels of the selected rows
SelectedNames ==
  {editable_table.rows[i].name : i \in {k \in 1..Len(editable_table.rows) : editable_table.rows[k].Select}}

\* the labels of the rows of the filtered table
FilteredNames == {filtered_df.rows[i].name : i \in 1..Len(filtered_df.rows)}

\* C7: when a row is selected, the rows are displayed in group order and then in
\* the order within the group, and the export is the non-missing values of the
\* exported column (the first column of the checkbox table; C8 says which one that
\* is) in the selected rows, in that order; it is empty when the checkbox table
\* has no column.
C7_SelectedExport ==
  AnySelected =>
    /\ [i \in 1..Len(editable_table.rows) |-> editable_table.rows[i].name]
         = [i \in 1..Len(Flatten(grouped_remaining)) |-> Flatten(grouped_remaining)[i].name]
    /\ col_data = IF editable_table.cols = <<>> THEN <<>>
                  ELSE ValuesOf(editable_table.rows, editable_table.cols[1], SelectedNames)

\* two selected rows displayed against their original order, one of them with a
\* missing value, and a row that is not selected
C7_Witness ==
  /\ col_data # <<>>
  /\ \E i \in 1..Len(editable_table.rows) : ~editable_table.rows[i].Select
  /\ \E i \in 1..Len(editable_table.rows), j \in 1..Len(editable_table.rows) :
       /\ i < j
       /\ editable_table.rows[i].Select /\ editable_table.rows[j].Select
       /\ editable_table.rows[i].name > editable_table.rows[j].name
       /\ editable_table.rows[i].cells[editable_table.cols[1]] = NaN

\* the first column that is not Source_File
RECURSIVE FirstNonProvenance(_)
FirstNonProvenance(cols) ==
  IF cols = <<>> THEN NoColumn
  ELSE IF Head(cols) # "Source_File" THEN Head(cols) ELSE FirstNonProvenance(Tail(cols))

\* the first column that is neither the parent column, nor a definition column,
\* nor one of Source_File and _group_key
RECURSIVE FirstShown(_, _)
FirstShown(cols, parent) ==
  IF cols = <<>> THEN NoColumn
  ELSE IF Head(cols) \notin {parent, "Source_File", "_group_key"} /\ ~IsDefinitionColumn(Head(cols))
       THEN Head(cols)
       ELSE FirstShown(Tail(cols), parent)

\* C8 as stated: the exported column is the first column of the filtered table
\* that is not Source_File, and what is exported are values of that column.
C8_FirstNonProvenanceColumn ==
  ~Empty(filtered_df) =>
    /\ column_to_export = FirstNonProvenance(filtered_df.cols)
    /\ \A k \in 1..Len(col_data) : \E i \in 1..Len(filtered_df.rows) :
         col_data[k] = filtered_df.rows[i].cells[FirstNonProvenance(filtered_df.cols)]

\* C8, amended: when a row is selected, the exported column is the first column
\* of the filtered table that is neither its first (parent) column nor a column
\* whose name contains "definition" (nor Source_File), and every exported value
\* is that column's value in a selected row; without such a column the export is
\* empty.
C8_FirstShownColumn ==
  AnySelected =>
    LET c == FirstShown(filtered_df.cols, filtered_df.cols[1])
    IN IF c = NoColumn THEN col_data = <<>>
       ELSE /\ column_to_export = c
            /\ \A k \in 1..Len(col_data) : \E i \in 1..Len(editable_table.rows) :
                 /\ editable_table.rows[i].Select
                 /\ col_data[k] = OriginalCell(editable_table.rows[i].name, c)

\* a selection in a table whose second column is a definition column: the third
\* column is exported
C8_Witness ==
  /\ AnySelected
  /\ Len(filtered_df.cols) >= 3
  /\ IsDefinitionColumn(filtered_df.cols[2])
  /\ column_to_export = filtered_df.cols[3]
  /\ col_data # <<>>

\* C6: when no row is selected, the export holds every non-missing value of the
\* target column of the filtered table, in the table's order.
C6_FallbackToWholeTable ==
  (~Empty(filtered_df) /\ ~AnySelected) =>
    col_data = ValuesOf(filtered_df.rows, FirstNonProvenance(filtered_df.cols), FilteredNames)

\* re.search(re.escape(query), s, re.IGNORECASE): the query as a literal
ContainsLiteral(s, query) ==
  \E start \in 1..(Len(s) - Len(query) + 1) :
    \A k \in 1..Len(query) : Lower(query[k]) = Lower(s[start + k - 1])

\* C4: for a non-empty query, the rows search returns are exactly the rows of
\* the deduplicated table with a textual column whose string form contains the
\* query's characters, taken literally, whatever their case.
C4_LiteralSubstring ==
  (global_search # <<>> /\ uploaded_files # <<>>) =>
    \A i \in 1..Len(df.rows) :
      InFrame(searched, df.rows[i].name)
        <=> \E c \in Range(df.cols) :
              DType(c) = "object" /\ ContainsLiteral(Str(df.rows[i].cells[c]), global_search)

\* C9: when every uploaded file has one column, no row is removed: kept is the
\* whole table and removed is empty.
C9_OneColumnKeepsAll ==
  (uploaded_files # <<>> /\ \A f \in 1..Len(uploaded_files) : Len(uploaded_files[f].cols) = 1) =>
    /\ removed_df.rows = <<>>
    /\ df.rows = df_original.rows

\* C10: a row is selected in a run only if the user ticked the checkbox of that
\* row (and has not unticked it).
C10_SelectedOnlyIfTicked ==
  \A i \in 1..Len(editable_table.rows) :
    editable_table.rows[i].Select => editable_table.rows[i].name \in userTicked

\* C3: normalize_text applied to its own result returns that result.
C3_Idempotent == Len(normalized) = 2 => normalized[2] = normalized[1]

====
